---- MODULE Spec2Model ----
(***************************************************************************)
(* Model of twod_threed/run.py: the 2D-to-3D pose inference runner.        *)
(*                                                                         *)
(* run(options) loads a model from a checkpoint, loads a dataset (a        *)
(* mapping key -> 2D joint array), runs the model on every key (once per   *)
(* key, or once per frame of each key when process_as_video is set) and    *)
(* saves the predictions mapping to <output_dir>/3dposes.                  *)
(*                                                                         *)
(* Tensors are records [shape, data]: shape is the tuple of dimensions,    *)
(* data the elements in row-major order.  Dataset keys are the integers    *)
(* 1..n, so a dataset is a function on 1..n; the order in which the        *)
(* mapping is iterated is a separate permutation of its keys.              *)
(***************************************************************************)
EXTENDS Integers, Sequences, FiniteSets, TLC

VARIABLES
    checkpointFile,     \* options.load: the checkpoint on disk
    dataFile,           \* options.data_dir: the serialized dataset on disk
    process_as_video,   \* options.process_as_video
    outDir,             \* options.output_dir on disk: "absent", "dir" or "file"
    outFile,            \* <output_dir>/3dposes on disk
    pc,                 \* position of the single thread of control in run()
    model,              \* run(): model
    dataset,            \* _run_model: dataset
    order,              \* the order in which "for key in dataset" yields the keys
    pos,                \* how many keys the for loop has yielded
    predictions,        \* _run_model: predictions
    i,                  \* _run_model: i
    key,                \* _run_model: key
    input_tensor,       \* _run_model: input_tensor
    frames,             \* _run_model_video: frames
    fi,                 \* _run_model_video: i
    stdout,             \* the notices printed by this run
    modelCalls,         \* calls of model(...) made by this run
    mkdirCalls,         \* calls of mkdir_p made by this run
    saveCalls,          \* calls of torch.save made by this run
    failedAt,           \* the step whose exception ended this run ("" if none)
    startDir,           \* outDir when this run was invoked
    startFile           \* outFile when this run was invoked

vars == <<checkpointFile, dataFile, process_as_video, outDir, outFile, pc, model,
          dataset, order, pos, predictions, i, key, input_tensor, frames, fi,
          stdout, modelCalls, mkdirCalls, saveCalls, failedAt, startDir, startFile>>

inputs == <<checkpointFile, dataFile, process_as_video>>
disk == <<outDir, outFile>>
videoLocals == <<frames, fi>>
counters == <<stdout, modelCalls, mkdirCalls, saveCalls>>
startState == <<startDir, startFile>>

----------------------------------------------------------------------------
(* Bounds of the model *)

MaxKeys == 2        \* datasets of up to MaxKeys keys carry every combination of values
MaxFrames == 2      \* videos of up to MaxFrames frames
NumJoints == 2      \* joints per frame
MaxManyKeys == 61   \* uniform datasets of up to MaxManyKeys keys

(* Program constants *)

ProgressEvery == 30

----------------------------------------------------------------------------
(* Tensors *)

RECURSIVE Prod(_)
Prod(s) == IF s = <<>> THEN 1 ELSE Head(s) * Prod(Tail(s))

RECURSIVE Flatten(_)
Flatten(ss) == IF ss = <<>> THEN <<>> ELSE Head(ss) \o Flatten(Tail(ss))

\* tensor.size()[0]
Size0(t) == t.shape[1]

\* tensor[idx], idx counted from 0
Index(t, idx) ==
    LET stride == Prod(Tail(t.shape))
    IN  [shape |-> Tail(t.shape),
         data  |-> SubSeq(t.data, idx * stride + 1, (idx + 1) * stride)]

\* tensor[-1]
Last(t) == Index(t, Size0(t) - 1)

\* tensor.unsqueeze(0)
Unsqueeze0(t) == [shape |-> <<1>> \o t.shape, data |-> t.data]

\* torch.Tensor(array): a tensor of the array's shape and elements
TorchTensor(a) == [shape |-> a.shape, data |-> a.data]

----------------------------------------------------------------------------
(* The network: a function of its weights and of one batch of frames *)

NoModel == [loaded |-> FALSE, w |-> 0]

ShapeOK(x) == Len(x.shape) = 3 /\ x.shape[2] = NumJoints /\ x.shape[3] = 2

RECURSIVE SumSeq(_)
SumSeq(s) == IF s = <<>> THEN 0 ELSE Head(s) + SumSeq(Tail(s))

\* one frame (2*NumJoints numbers) to its 3D joints (3*NumJoints numbers)
ForwardFrame(w, f) ==
    Flatten([j \in 1..NumJoints |->
                <<f[2 * j - 1], f[2 * j], (SumSeq(f) + w + j) % 3>>])

\* model(x): a batch of B frames of NumJoints x 2 to B x NumJoints x 3
Forward(m, x) ==
    [shape |-> <<x.shape[1], NumJoints, 3>>,
     data  |-> Flatten([b \in 1..x.shape[1] |->
                  ForwardFrame(m.w, SubSeq(x.data, (b - 1) * 2 * NumJoints + 1,
                                           b * 2 * NumJoints))])]

\* whether model(x) returns rather than raises
ForwardOK(m, x) == m.loaded /\ ShapeOK(x)

----------------------------------------------------------------------------
(* _run_model_single_image *)

SingleImageOK(m, t) == ForwardOK(m, Unsqueeze0(t))

\* SingleImage that returns the whole batch
SingleImageMut(m, t) == Forward(m, Unsqueeze0(t))

SingleImage(m, t) == Last(Forward(m, Unsqueeze0(t)))

----------------------------------------------------------------------------
(* The inputs a run can be given *)

\* a 2D pose of NumJoints joints, as a NumJoints x 2 array
Frame(c) == [shape |-> <<NumJoints, 2>>,
             data  |-> Flatten([j \in 1..NumJoints |-> <<c, (c + j) % 2>>])]

FrameSet == {Frame(0), Frame(1)}

\* N frames stacked along a leading time dimension: an N x NumJoints x 2 array
Stack(fs) == [shape |-> <<Len(fs), NumJoints, 2>>,
              data  |-> Flatten([p \in 1..Len(fs) |-> fs[p].data])]

FrameSeqs == UNION {[1..n -> FrameSet] : n \in 0..MaxFrames}

VideoSet == {Stack(fs) : fs \in FrameSeqs}

ValueSet == FrameSet \cup VideoSet

SmallDatasets == UNION {[1..n -> ValueSet] : n \in 0..MaxKeys}

ManyDatasets == {[k \in 1..n |-> v] : n \in (MaxKeys + 1)..MaxManyKeys,
                                      v \in {Frame(0), Stack(<<Frame(1)>>)}}

NoData == [exists |-> FALSE, content |-> <<>>]

DataFiles == {NoData} \cup {[exists |-> TRUE, content |-> d] :
                                d \in SmallDatasets \cup ManyDatasets}

CheckpointFiles == {[exists |-> FALSE, state_dict |-> 0],
                    [exists |-> TRUE, state_dict |-> 1]}

NoFile == [written |-> FALSE, content |-> <<>>]

\* the orders in which a mapping of n keys may be iterated
Orders(n) ==
    IF n <= MaxKeys
    THEN {s \in [1..n -> 1..n] : \A a, b \in 1..n : s[a] = s[b] => a = b}
    ELSE {[k \in 1..n |-> k]}

----------------------------------------------------------------------------
(* run(options) *)

Locals ==
    /\ model = NoModel
    /\ dataset = <<>>
    /\ order = <<>>
    /\ pos = 0
    /\ predictions = <<>>
    /\ i = 0
    /\ key = 0
    /\ input_tensor = [shape |-> <<0>>, data |-> <<>>]
    /\ frames = <<>>
    /\ fi = 0
    /\ stdout = <<>>
    /\ modelCalls = 0
    /\ mkdirCalls = 0
    /\ saveCalls = 0
    /\ failedAt = ""

Init ==
    /\ checkpointFile \in CheckpointFiles
    /\ dataFile \in DataFiles
    /\ process_as_video \in BOOLEAN
    /\ outDir \in {"absent", "file"}
    /\ outFile = NoFile
    /\ pc = "load_model"
    /\ Locals
    /\ startDir = outDir
    /\ startFile = outFile

\* Raise with the exception swallowed and the run carried on to the save
RaiseMut(step) ==
    /\ pc' = "save"
    /\ failedAt' = step

\* an exception raised in step propagates out of run()
Raise(step) ==
    /\ pc' = "failed"
    /\ failedAt' = step

\* the caller invokes run() again with the same options
Invoke ==
    /\ pc \in {"done", "failed"}
    /\ pc' = "load_model"
    /\ model' = NoModel
    /\ dataset' = <<>>
    /\ order' = <<>>
    /\ pos' = 0
    /\ predictions' = <<>>
    /\ i' = 0
    /\ key' = 0
    /\ input_tensor' = [shape |-> <<0>>, data |-> <<>>]
    /\ frames' = <<>>
    /\ fi' = 0
    /\ stdout' = <<>>
    /\ modelCalls' = 0
    /\ mkdirCalls' = 0
    /\ saveCalls' = 0
    /\ failedAt' = ""
    /\ startDir' = outDir
    /\ startFile' = outFile
    /\ UNCHANGED <<inputs, disk>>

\* model = _load_model(model_file)
LoadModel ==
    /\ pc = "load_model"
    /\ IF checkpointFile.exists
       THEN /\ model' = [loaded |-> TRUE, w |-> checkpointFile.state_dict]
            /\ pc' = "load_dataset"
            /\ UNCHANGED failedAt
       ELSE /\ Raise("load_model")
            /\ UNCHANGED model
    /\ UNCHANGED <<inputs, disk, dataset, order, pos, predictions, i, key,
                   input_tensor, videoLocals, counters, startState>>

\* dataset = torch.load(data_input_dir); predictions = {}; i = 0
LoadDataset ==
    /\ pc = "load_dataset"
    /\ IF dataFile.exists
       THEN /\ dataset' = dataFile.content
            /\ order' \in Orders(Len(dataFile.content))
            /\ pos' = 0
            /\ predictions' = <<>>
            /\ i' = 0
            /\ pc' = "loop"
            /\ UNCHANGED failedAt
       ELSE /\ Raise("load_dataset")
            /\ UNCHANGED <<dataset, order, pos, predictions, i>>
    /\ UNCHANGED <<inputs, disk, model, key, input_tensor, videoLocals,
                   counters, startState>>

\* Exhausted with the return inside the loop body: true after the first key
ExhaustedMut(p, ord) == p >= 1 \/ p = Len(ord)

\* whether the for loop has yielded every key
Exhausted(p, ord) == p = Len(ord)

\* ProgressNotice with the test made after the increment of i
ProgressNoticeMut(out, cnt, total) ==
    IF (cnt + 1) % ProgressEvery = 0 THEN Append(out, <<cnt + 1, total>>) ELSE out

\* if i % 30 == 0: print("At " + str(i) + " out of " + str(len(dataset)) + " videos.")
ProgressNotice(out, cnt, total) ==
    IF cnt % ProgressEvery = 0 THEN Append(out, <<cnt, total>>) ELSE out

\* NewFrames with one list shared by every call
NewFramesMut(old) == old

\* frames = []
NewFrames(old) == <<>>

\* Put that rebinds predictions to a mapping of the one key
PutMut(p, k, v) == [x \in {k} |-> v]

\* predictions[key] = value
Put(p, k, v) == [x \in DOMAIN p \cup {k} |-> IF x = k THEN v ELSE p[x]]

\* one turn of "for key in dataset" up to the choice of the path; ds is the
\* dataset as the turn leaves it
LoopStepLeaving(ds) ==
    /\ pc = "loop"
    /\ ~Exhausted(pos, order)
    /\ pos' = pos + 1
    /\ key' = order[pos + 1]
    /\ stdout' = ProgressNotice(stdout, i, Len(dataset))
    /\ i' = i + 1
    /\ input_tensor' = TorchTensor(dataset[order[pos + 1]])
    /\ dataset' = ds
    /\ IF process_as_video
       THEN /\ pc' = "video"
            /\ frames' = NewFrames(frames)
            /\ fi' = 0
       ELSE /\ pc' = "image"
            /\ UNCHANGED videoLocals
    /\ UNCHANGED <<inputs, disk, model, order, predictions, modelCalls,
                   mkdirCalls, saveCalls, failedAt, startState>>

\* LoopStep with the batch dimension added in place to the dataset's own array
LoopStepMut ==
    LoopStepLeaving([dataset EXCEPT ![order[pos + 1]] = Unsqueeze0(@)])

LoopStep == LoopStepLeaving(dataset)

\* predictions[key] = _run_model_single_image(model, input_tensor)
ImageCall ==
    /\ pc = "image"
    /\ modelCalls' = modelCalls + 1
    /\ IF SingleImageOK(model, input_tensor)
       THEN /\ predictions' = Put(predictions, key, SingleImage(model, input_tensor))
            /\ pc' = "loop"
            /\ UNCHANGED failedAt
       ELSE /\ Raise("inference")
            /\ UNCHANGED predictions
    /\ UNCHANGED <<inputs, disk, model, dataset, order, pos, i, key, input_tensor,
                   videoLocals, stdout, mkdirCalls, saveCalls, startState>>

\* one turn of "for i in range(input_tensor.size()[0])" on the frame at idx
VideoFrameAt(idx) ==
    /\ pc = "video"
    /\ fi < Size0(input_tensor)
    /\ modelCalls' = modelCalls + 1
    /\ IF SingleImageOK(model, Index(input_tensor, idx))
       THEN /\ frames' = Append(frames, SingleImage(model, Index(input_tensor, idx)))
            /\ fi' = fi + 1
            /\ UNCHANGED <<pc, failedAt>>
       ELSE /\ Raise("inference")
            /\ UNCHANGED videoLocals
    /\ UNCHANGED <<inputs, disk, model, dataset, order, pos, predictions, i, key,
                   input_tensor, stdout, mkdirCalls, saveCalls, startState>>

\* VideoFrame that reads the first frame at every turn
VideoFrameMut == VideoFrameAt(0)

VideoFrame == VideoFrameAt(fi)

\* VideoReturn that stores nothing for a video with no frames
VideoReturnMut ==
    /\ pc = "video"
    /\ fi >= Size0(input_tensor)
    /\ predictions' = IF frames = <<>> THEN predictions ELSE Put(predictions, key, frames)
    /\ pc' = "loop"
    /\ UNCHANGED <<inputs, disk, model, dataset, order, pos, i, key, input_tensor,
                   videoLocals, counters, failedAt, startState>>

\* return frames; predictions[key] = <the returned list>
VideoReturn ==
    /\ pc = "video"
    /\ fi >= Size0(input_tensor)
    /\ predictions' = Put(predictions, key, frames)
    /\ pc' = "loop"
    /\ UNCHANGED <<inputs, disk, model, dataset, order, pos, i, key, input_tensor,
                   videoLocals, counters, failedAt, startState>>

\* return predictions
LoopExit ==
    /\ pc = "loop"
    /\ Exhausted(pos, order)
    /\ pc' = "save"
    /\ UNCHANGED <<inputs, disk, model, dataset, order, pos, predictions, i, key,
                   input_tensor, videoLocals, counters, failedAt, startState>>

\* utils.osutils.isdir
IsDir(d) == d = "dir"

\* utils.osutils.mkdir_p: whether it returns rather than raises, and its effect
MkdirOK(d) == d # "file"

MkdirP(d) == IF d = "absent" THEN "dir" ELSE d

\* _save_preds(dataset, data_output_dir), with exists the answer of isdir
SavePredsGiven(exists) ==
    /\ pc = "save"
    /\ mkdirCalls' = IF exists THEN mkdirCalls ELSE mkdirCalls + 1
    /\ LET made == IF exists THEN outDir ELSE MkdirP(outDir)
       IN  IF (exists \/ MkdirOK(outDir)) /\ made = "dir"
           THEN /\ outDir' = made
                /\ outFile' = [written |-> TRUE, content |-> predictions]
                /\ saveCalls' = saveCalls + 1
                /\ pc' = "done"
                /\ UNCHANGED failedAt
           ELSE /\ outDir' = made
                /\ Raise("save")
                /\ UNCHANGED <<outFile, saveCalls>>
    /\ UNCHANGED <<inputs, model, dataset, order, pos, predictions, i, key,
                   input_tensor, videoLocals, stdout, modelCalls, startState>>

\* SavePreds with the test of isdir inverted
SavePredsMut == SavePredsGiven(~IsDir(outDir))

SavePreds == SavePredsGiven(IsDir(outDir))

Next ==
    \/ Invoke
    \/ LoadModel
    \/ LoadDataset
    \/ LoopStep
    \/ ImageCall
    \/ VideoFrame
    \/ VideoReturn
    \/ LoopExit
    \/ SavePreds

Spec == Init /\ [][Next]_vars

----------------------------------------------------------------------------
(* Properties *)

Returned == pc \in {"save", "done"}

Iterating == pc \in {"loop", "image", "video"}

\* what one frame, run through the network on its own, comes out as
AloneResult(t) ==
    Last(Forward(model, [shape |-> <<1>> \o t.shape, data |-> t.data]))

\* the value of a key as a function of that key's input alone
Expected(k) ==
    IF process_as_video
    THEN [p \in 1..Size0(dataset[k]) |-> AloneResult(Index(dataset[k], p - 1))]
    ELSE AloneResult(dataset[k])

\* a NumJoints x 3 array with no batch dimension
IsPose3D(t) ==
    /\ t.shape = <<NumJoints, 3>>
    /\ Len(t.data) = 3 * NumJoints

CeilDiv(a, b) == (a + b - 1) \div b

\* C1: when _run_model has returned, the keys of predictions are exactly the
\* keys of the input dataset, for every dataset and either video flag.
C1_KeysPreserved ==
    Returned => DOMAIN predictions = DOMAIN dataset

C1_Witness ==
    /\ pc = "save"
    /\ Cardinality(DOMAIN dataset) >= 2
    /\ DOMAIN predictions = DOMAIN dataset

\* C2: the video path yields one result per frame, in frame order, each the
\* single-image result of that frame alone: while it runs, frames holds the
\* results of the first fi frames; what it returns has one entry per frame.
C2_VideoIsPerFrame ==
    /\ pc = "video" =>
          /\ Len(frames) = fi
          /\ fi <= Size0(input_tensor)
          /\ \A p \in 1..fi : frames[p] = SingleImage(model, Index(input_tensor, p - 1))
    /\ (pc = "loop" /\ process_as_video /\ pos > 0) =>
          /\ Len(predictions[key]) = Size0(input_tensor)
          /\ \A p \in 1..Size0(input_tensor) :
                predictions[key][p] = SingleImage(model, Index(input_tensor, p - 1))

C2_Witness ==
    /\ pc = "loop"
    /\ process_as_video
    /\ pos > 0
    /\ Len(predictions[key]) = 2
    /\ predictions[key][1] # predictions[key][2]

\* C3: every single-image result is the last entry of the network's output
\* for the frame wrapped as a one-item batch: a NumJoints x 3 array, of the
\* same shape for every frame, with no batch dimension left.
C3_SingleImageShape ==
    /\ (pc = "loop" /\ ~process_as_video /\ pos > 0) =>
          /\ IsPose3D(predictions[key])
          /\ predictions[key] = AloneResult(input_tensor)
    /\ (pc = "video") =>
          \A p \in 1..Len(frames) : IsPose3D(frames[p])

C3_Witness ==
    /\ pc = "loop"
    /\ ~process_as_video
    /\ pos > 0
    /\ input_tensor.shape = <<NumJoints, 2>>
    /\ predictions[key].shape = <<NumJoints, 3>>

\* C4: _save_preds creates the directory exactly when it is absent, never
\* when it exists, and fails in neither case; afterwards the directory
\* exists and <output_dir>/3dposes holds the predictions, on a first run and
\* on a rerun alike.
C4_SaveCreatesDirOnce ==
    /\ pc = "done" =>
          /\ outDir = "dir"
          /\ outFile = [written |-> TRUE, content |-> predictions]
          /\ mkdirCalls = (IF startDir = "dir" THEN 0 ELSE 1)
    /\ failedAt = "save" => startDir = "file"

C4_Witness ==
    /\ pc = "done"
    /\ startDir = "dir"
    /\ startFile.written
    /\ mkdirCalls = 0
    /\ DOMAIN predictions # {}

\* C5: the steps of run() happen in order: the model is loaded before the
\* dataset is, nothing is inferred before both are, and the predictions are
\* saved exactly once, after every key has been processed.
C5_StrictOrder ==
    /\ pc \notin {"load_model", "failed"} => model.loaded
    /\ modelCalls > 0 => model.loaded /\ pc \notin {"load_model", "load_dataset"}
    /\ saveCalls <= 1
    /\ saveCalls = 1 <=> pc = "done"
    /\ (pc = "save" \/ saveCalls = 1) =>
          /\ pos = Len(order)
          /\ DOMAIN predictions = DOMAIN dataset
    /\ Iterating \/ pc \in {"load_model", "load_dataset"} =>
          outDir = startDir /\ outFile = startFile

C5_Witness ==
    /\ pc = "done"
    /\ saveCalls = 1
    /\ modelCalls >= 2
    /\ Cardinality(DOMAIN dataset) >= 2

\* C6: a failure of model loading, dataset loading or inference ends the run
\* at once: the directory is not created and nothing is saved, not even the
\* predictions made so far.
C6_FailureSavesNothing ==
    failedAt \in {"load_model", "load_dataset", "inference"} =>
        /\ pc = "failed"
        /\ mkdirCalls = 0
        /\ saveCalls = 0
        /\ outDir = startDir
        /\ outFile = startFile

C6_Witness ==
    /\ pc = "failed"
    /\ failedAt = "inference"
    /\ DOMAIN predictions # {}
    /\ startDir = "absent"
    /\ outDir = "absent"

\* C7: a notice is printed exactly when the count of keys already processed
\* is a multiple of 30, before the next key is processed, and carries that
\* count and the number of keys: after i keys there are ceil(i/30) notices,
\* so n keys give ceil(n/30) notices and an empty dataset none.
C7_ProgressCadence ==
    /\ (Iterating \/ Returned \/ failedAt = "inference") =>
          /\ i = pos
          /\ stdout = [m \in 1..CeilDiv(i, 30) |-> <<30 * (m - 1), Len(dataset)>>]
    /\ Returned => Len(stdout) = CeilDiv(Len(dataset), 30)

C7_Witness ==
    /\ pc = "save"
    /\ Len(dataset) = 61
    /\ stdout = << <<0, 61>>, <<30, 61>>, <<60, 61>> >>

\* C8: the result does not depend on the order in which the keys are visited:
\* whatever the order, the final predictions map every key to a value that is
\* a function of that key's input alone.
C8_OrderIndependent ==
    Returned => predictions = [k \in DOMAIN dataset |-> Expected(k)]

C8_Witness ==
    /\ pc = "done"
    /\ order = <<2, 1>>
    /\ dataset[1] # dataset[2]
    /\ predictions[1] # predictions[2]

\* C9: the inputs are read-only: once loaded, the model is changed by no step
\* of inference or saving, the dataset mapping is changed by no step after its
\* load, the files read are never written, and iteration writes nothing on
\* disk.
C9_InputsReadOnly ==
    [][ /\ (pc \in {"load_dataset", "loop", "image", "video", "save"}) => model' = model
        /\ (pc \in {"loop", "image", "video", "save"}) => dataset' = dataset
        /\ inputs' = inputs
        /\ Iterating => disk' = disk ]_vars

C9_Witness ==
    /\ pc = "done"
    /\ model.loaded
    /\ dataset = dataFile.content
    /\ modelCalls >= 2

RECURSIVE FramesOf(_)
FramesOf(ks) ==
    IF ks = {} THEN 0
    ELSE LET k == CHOOSE x \in ks : TRUE
         IN  Size0(dataset[k]) + FramesOf(ks \ {k})

\* C10: the flag fixes the number of calls of the network: one per key when
\* it is false, one per frame of each key when it is true; a key with no
\* frames costs no call and is stored with an empty sequence.
C10_InvocationCount ==
    (pc = "loop" \/ Returned) =>
        /\ modelCalls = (IF process_as_video THEN FramesOf(DOMAIN predictions)
                         ELSE Cardinality(DOMAIN predictions))
        /\ process_as_video =>
              \A k \in DOMAIN dataset :
                  (Size0(dataset[k]) = 0 /\ (Returned \/ k \in DOMAIN predictions)) =>
                      k \in DOMAIN predictions /\ predictions[k] = <<>>

C10_Witness ==
    /\ pc = "done"
    /\ process_as_video
    /\ Cardinality(DOMAIN dataset) = 2
    /\ \E k \in DOMAIN dataset : Size0(dataset[k]) = 0 /\ predictions[k] = <<>>
    /\ modelCalls = 2

====
